---- MODULE Spec2Model ----
\* ZenMatrix task API, role-aware revision (src/server.js, lines 152-379):
\* register / login, the authenticateToken middleware and the four protected
\* task routes, over a store of users and tasks.
\*
\* A request is in flight between the moments its handler awaits the store.
\* Code that runs between two awaits touches only the request itself, so each
\* action below is one store call together with the synchronous code that
\* leads to it and follows it.  The body, route parameter and query string of
\* a request are drawn where the handler reads them.
EXTENDS Integers, Sequences, FiniteSets, TLC

\* ---------------------------------------------------------------- bounds
MaxTasks == 2          \* rows the Task table's AUTO_INCREMENT may hand out
MaxClock == 1          \* the clock runs from hour 0 to hour MaxClock

\* ------------------------------------------------------ program constants
ExpiresIn == 1         \* jwt.sign(..., { expiresIn: '1h' }), in hours
DefaultPage == 1       \* parseInt(page) || 1
DefaultLimit == 10     \* parseInt(limit) || 10

Clients == {"c1"}

VARIABLES
    users,       \* rows of the User table
    nextUserId,  \* its next server-assigned id
    tasks,       \* rows of the Task table
    nextTaskId,  \* AUTO_INCREMENT of Task.id
    now,         \* wall clock, in hours
    held,        \* held[c]: the token client c got from its last login, if any
    pc,          \* pc[c]: where c's request is suspended
    req,         \* req[c]: what has been read of c's request so far
    reqUser,     \* req.user, attached by the middleware
    nextCalled,  \* whether the middleware called next() for c's request
    resp         \* resp[c]: the responses sent for c's request, in order

vars == <<users, nextUserId, tasks, nextTaskId, now, held, pc, req, reqUser,
          nextCalled, resp>>

storeVars == <<users, nextUserId, tasks, nextTaskId>>

\* ------------------------------------------------------------- JS values
Has(obj, k) == k \in DOMAIN obj

\* !obj[k] for a string-valued property: undefined or ''.
FalsyStr(obj, k) == ~Has(obj, k) \/ obj[k] = ""

\* !obj[k] for a text property held as a sequence of characters.
FalsyText(obj, k) == ~Has(obj, k) \/ obj[k] = <<>>

\* Dates travel as the hour they denote; 0 is null, a property that is not
\* in the object is undefined.  fecha ? new Date(fecha) : other
TruthyDate(obj, k) == Has(obj, k) /\ obj[k] > 0

NullDate == 0
NullText == <<"NULL">>
NoUser == [userId |-> 0, role |-> "none"]
NoBody == <<>>

\* ------------------------------------------------------------ bcrypt, jwt
\* bcrypt.hash(password, 10)
Hash(password) == <<"$2a$10$", password>>

\* Mutant: every password is taken to match.
CompareAny(password, hash) == TRUE

\* bcrypt.compare(password, hash)
Compare(password, hash) == hash = Hash(password)

\* Mutant: the token is signed for two hours instead of one.
SignTwoHours(userId, role, iat) ==
    [userId |-> userId, role |-> role, iat |-> iat,
     exp |-> iat + 2 * ExpiresIn, sig |-> "JWT_SECRET"]

\* jwt.sign({ userId, role }, JWT_SECRET, { expiresIn: '1h' })
Sign(userId, role, iat) ==
    [userId |-> userId, role |-> role, iat |-> iat, exp |-> iat + ExpiresIn,
     sig |-> "JWT_SECRET"]

\* jwt.verify(token, JWT_SECRET, cb): err when the signature is not
\* JWT_SECRET's or the token has expired (clock >= exp).
VerifyErr(token, clock) == token.sig # "JWT_SECRET" \/ clock >= token.exp

\* A token signed with another key that claims the seeded administrator's
\* identity.
Forged == [userId |-> 1, role |-> "ADMIN", iat |-> 0, exp |-> MaxClock + 2,
           sig |-> "other"]
\* A token this server signed for a user whose row is no longer in the store.
Orphan == [userId |-> 9, role |-> "USER", iat |-> 0, exp |-> MaxClock + 2,
           sig |-> "JWT_SECRET"]

\* ---------------------------------------------------------------- store
SeedUsers ==
    {[id |-> 1, email |-> "e0", password |-> Hash("p1"), role |-> "ADMIN"]}

\* Mutant: the lookup by email finds nothing.
UsersByEmailNone(email) == {u \in users : FALSE}

\* prisma.user.findUnique({ where: { email } })
UsersByEmail(email) == {u \in users : u.email = email}

\* prisma.user.findUnique({ where: { id } })
UsersById(id) == {u \in users : u.id = id}

TaskIds == {t.id : t \in tasks}
TaskById(id) == CHOOSE t \in tasks : t.id = id

\* ------------------------------------------------------------- requests
NoHeader == [present |-> FALSE, scheme |-> "", words |-> <<>>]
\* An Authorization header, as authHeader.split(' ') sees it: the scheme,
\* then the words that follow it.
Header(scheme, rest) == [present |-> TRUE, scheme |-> scheme, words |-> rest]

\* authHeader && authHeader.split(' ')[1]: the second word, whatever the
\* scheme; no second word gives undefined.
HasToken(header) == header.present /\ Len(header.words) >= 1
TokenOf(header) == header.words[1]

Headers(c) ==
    {NoHeader, Header("Bearer", <<>>), Header("Bearer", <<Forged>>),
     Header("Basic", <<Orphan>>)}
    \cup {Header("Bearer", <<held[c][i]>>) : i \in 1..Len(held[c])}

ProtectedKinds == {"create", "list", "update", "delete"}

Idle(c) == pc[c] = "idle"

\* What the slot keeps of a request: the route, and its parts as they are read.
Request(kind, header, body, id, query, totalCount) ==
    [kind |-> kind, header |-> header, body |-> body, id |-> id,
     query |-> query, totalCount |-> totalCount]

NoRequest == Request("none", NoHeader, NoBody, 0, NoBody, 0)

\* { error: message }
Error(message) == [error |-> message]

Response(status, body) == [status |-> status, body |-> body]

\* res.status(status).json(body) on the first, and on a later, step of a request
Reply(c, status, body) ==
    resp' = [resp EXCEPT ![c] = <<Response(status, body)>>]
Send(c, status, body) ==
    resp' = [resp EXCEPT ![c] = Append(@, Response(status, body))]
Silent(c) == resp' = [resp EXCEPT ![c] = <<>>]

Goto(c, label) == pc' = [pc EXCEPT ![c] = label]

\* ----------------------------------------------------------------- Init
Init ==
    /\ users = SeedUsers
    /\ nextUserId = 2
    /\ tasks = {}
    /\ nextTaskId = 1
    /\ now = 0
    /\ held = [c \in Clients |-> <<>>]
    /\ pc = [c \in Clients |-> "idle"]
    /\ req = [c \in Clients |-> NoRequest]
    /\ reqUser = [c \in Clients |-> NoUser]
    /\ nextCalled = [c \in Clients |-> FALSE]
    /\ resp = [c \in Clients |-> <<>>]

\* ---------------------------------------------------------------- clock
Tick ==
    /\ now < MaxClock
    /\ now' = now + 1
    /\ UNCHANGED <<storeVars, held, pc, req, reqUser, nextCalled, resp>>

\* ------------------------------------------------------ POST /api/register
RegisterBodies ==
    {[email |-> "e1", password |-> "p1"], [email |-> "e1", password |-> "p2"],
     [email |-> "e0", password |-> "p2"],
     [email |-> "e1"], [email |-> "", password |-> "p1"]}

\* The user as the response shows it: { password, ...userWithoutPassword }
WithoutPassword(u) == [id |-> u.id, email |-> u.email, role |-> u.role]

\* Validation and prisma.user.findUnique({ where: { email } }), for a body
\* among bodies.
PostRegisterFrom(c, bodies) ==
    /\ Idle(c)
    /\ \E body \in bodies :
         /\ req' = [req EXCEPT ![c] =
                       Request("register", NoHeader, body, 0, NoBody, 0)]
         /\ IF FalsyStr(body, "email") \/ FalsyStr(body, "password")
            THEN Reply(c, 400, Error("Email y contrasena son obligatorios."))
                 /\ UNCHANGED pc
            ELSE IF UsersByEmail(body.email) # {}
            THEN Reply(c, 409, Error("El email ya esta registrado."))
                 /\ UNCHANGED pc
            ELSE Silent(c) /\ Goto(c, "register_create")
    /\ reqUser' = [reqUser EXCEPT ![c] = NoUser]
    /\ nextCalled' = [nextCalled EXCEPT ![c] = FALSE]
    /\ UNCHANGED <<storeVars, now, held>>

PostRegister(c) == PostRegisterFrom(c, RegisterBodies)

\* Mutant: the role of the new row is the body's, when the body gives one.
NewUserRoleFromBody(body) ==
    [id |-> nextUserId, email |-> body.email,
     password |-> Hash(body.password),
     role |-> IF Has(body, "role") THEN body.role ELSE "USER"]

\* The row prisma.user.create writes: data: { email, password, role: "USER" }
NewUser(body) ==
    [id |-> nextUserId, email |-> body.email,
     password |-> Hash(body.password), role |-> "USER"]

\* Mutant: the User table has no unique index on email.
EmailIndexAbsent(email) == FALSE

\* The unique index on User.email (findUnique by email requires it): a
\* create with an email some row has violates it.
EmailIndexViolated(email) == \E u \in users : u.email = email

\* bcrypt.hash and prisma.user.create; the unique index on email makes the
\* create throw (P2002) when the email was taken in the meantime.
RegisterCreate(c) ==
    /\ pc[c] = "register_create"
    /\ IF EmailIndexViolated(req[c].body.email)
       THEN /\ Send(c, 500, Error("No se pudo registrar el usuario."))
            /\ UNCHANGED <<users, nextUserId>>
       ELSE /\ users' = users \cup {NewUser(req[c].body)}
            /\ nextUserId' = nextUserId + 1
            /\ Send(c, 201, WithoutPassword(NewUser(req[c].body)))
    /\ Goto(c, "idle")
    /\ UNCHANGED <<tasks, nextTaskId, now, held, req, reqUser, nextCalled>>

\* --------------------------------------------------------- POST /api/login
LoginBodies ==
    {[email |-> e, password |-> p] : e \in {"e0", "e1"}, p \in {"p1", "p2"}}
    \cup {[password |-> "p1"]}

\* What login answers for a body, given the store and the clock.
LoginResponse(body) ==
    IF FalsyStr(body, "email") \/ FalsyStr(body, "password")
    THEN Response(400, Error("Email y contrasena son obligatorios."))
    ELSE IF UsersByEmail(body.email) = {}
    THEN Response(401, Error("Credenciales invalidas."))
    ELSE LET user == CHOOSE u \in users : u.email = body.email
         IN  IF ~Compare(body.password, user.password)
             THEN Response(401, Error("Credenciales invalidas."))
             ELSE Response(200, [token |-> Sign(user.id, user.role, now),
                                 user |-> WithoutPassword(user)])

\* The client keeps the token of a successful login.
PostLogin(c) ==
    /\ Idle(c)
    /\ \E body \in LoginBodies :
         /\ req' = [req EXCEPT ![c] =
                       Request("login", NoHeader, body, 0, NoBody, 0)]
         /\ resp' = [resp EXCEPT ![c] = <<LoginResponse(body)>>]
         /\ held' = [held EXCEPT ![c] =
                        IF LoginResponse(body).status = 200
                        THEN <<LoginResponse(body).body.token>> ELSE @]
    /\ reqUser' = [reqUser EXCEPT ![c] = NoUser]
    /\ nextCalled' = [nextCalled EXCEPT ![c] = FALSE]
    /\ UNCHANGED <<storeVars, now, pc>>

\* ------------------------------------------------------- authenticateToken
\* Mutant: a missing token is reported like an invalid one.
AuthOutcomeNoNullTest(header, clock) ==
    IF ~HasToken(header) THEN 403
    ELSE IF VerifyErr(TokenOf(header), clock) THEN 403
    ELSE 0

\* The synchronous part: the header test and jwt.verify.
AuthOutcome(header, clock) ==
    IF ~HasToken(header) THEN 401
    ELSE IF VerifyErr(TokenOf(header), clock) THEN 403
    ELSE 0

\* authenticateToken up to its await, for a request to one of the routes kinds.
Authenticate(c, kinds) ==
    /\ Idle(c)
    /\ \E kind \in kinds, header \in Headers(c) :
         /\ req' = [req EXCEPT ![c] =
                       Request(kind, header, NoBody, 0, NoBody, 0)]
         /\ IF AuthOutcome(header, now) = 401
            THEN Reply(c, 401, Error("Token no proporcionado.")) /\ UNCHANGED pc
            ELSE IF AuthOutcome(header, now) = 403
            THEN Reply(c, 403, Error("Token invalido o expirado.")) /\ UNCHANGED pc
            ELSE Silent(c) /\ Goto(c, "auth_lookup")
    /\ reqUser' = [reqUser EXCEPT ![c] = NoUser]
    /\ nextCalled' = [nextCalled EXCEPT ![c] = FALSE]
    /\ UNCHANGED <<storeVars, now, held>>

authenticateToken(c) == Authenticate(c, ProtectedKinds)

\* req.user = { userId: user.id, role: user.role }
Attach(user) == [userId |-> user.id, role |-> user.role]

\* Mutant: the 404 branch does not return, so that next() is called without
\* a user attached.
AuthLookupNoReturn(c) ==
    /\ pc[c] = "auth_lookup"
    /\ LET found == UsersById(TokenOf(req[c].header).userId)
       IN  IF found = {}
           THEN /\ Send(c, 404, Error("Usuario no encontrado."))
                /\ nextCalled' = [nextCalled EXCEPT ![c] = TRUE]
                /\ UNCHANGED reqUser
           ELSE /\ reqUser' = [reqUser EXCEPT ![c] =
                                 Attach(CHOOSE u \in found : TRUE)]
                /\ nextCalled' = [nextCalled EXCEPT ![c] = TRUE]
                /\ UNCHANGED resp
    /\ Goto(c, req[c].kind)
    /\ UNCHANGED <<storeVars, now, held, req>>

\* prisma.user.findUnique({ where: { id: userPayload.userId } }), then 404 or
\* next(): the route's handler starts.
AuthLookup(c) ==
    /\ pc[c] = "auth_lookup"
    /\ LET found == UsersById(TokenOf(req[c].header).userId)
       IN  IF found = {}
           THEN /\ Send(c, 404, Error("Usuario no encontrado."))
                /\ Goto(c, "idle")
                /\ UNCHANGED <<reqUser, nextCalled>>
           ELSE /\ reqUser' = [reqUser EXCEPT ![c] =
                                 Attach(CHOOSE u \in found : TRUE)]
                /\ nextCalled' = [nextCalled EXCEPT ![c] = TRUE]
                /\ Goto(c, req[c].kind)
                /\ UNCHANGED resp
    /\ UNCHANGED <<storeVars, now, held, req>>

\* ---------------------------------------------------------- parseInt
Digits == <<"0", "1", "2", "3", "4", "5", "6", "7", "8", "9">>
IsDigit(ch) == \E i \in 1..10 : Digits[i] = ch
DigitVal(ch) == (CHOOSE i \in 1..10 : Digits[i] = ch) - 1

\* The value of the longest prefix of digits of s, read left to right.
RECURSIVE DigitsValue(_, _)
DigitsValue(s, acc) ==
    IF s = <<>> \/ ~IsDigit(Head(s)) THEN acc
    ELSE DigitsValue(Tail(s), 10 * acc + DigitVal(Head(s)))

\* Mutant: a text with anything after its digits is not a number.
parseIntWhole(s) ==
    LET neg  == s # <<>> /\ Head(s) = "-"
        rest == IF neg THEN Tail(s) ELSE s
    IN  IF rest = <<>> \/ \E i \in 1..Len(rest) : ~IsDigit(rest[i])
        THEN [nan |-> TRUE, n |-> 0]
        ELSE [nan |-> FALSE,
              n |-> IF neg THEN 0 - DigitsValue(rest, 0)
                    ELSE DigitsValue(rest, 0)]

\* parseInt(s): an optional sign, then digits; NaN when no digit follows.
\* undefined (s = <<>> stands for a value that was not given) is NaN too.
parseInt(s) ==
    LET neg  == s # <<>> /\ Head(s) = "-"
        rest == IF neg THEN Tail(s) ELSE s
    IN  IF rest = <<>> \/ ~IsDigit(Head(rest))
        THEN [nan |-> TRUE, n |-> 0]
        ELSE [nan |-> FALSE,
              n |-> IF neg THEN 0 - DigitsValue(rest, 0)
                    ELSE DigitsValue(rest, 0)]

\* parseInt(x) || fallback: NaN and 0 are falsy
OrDefault(parsed, fallback) ==
    IF parsed.nan \/ parsed.n = 0 THEN fallback ELSE parsed.n

\* The decimal text of a route parameter naming id n
IdParam(n) == <<Digits[n + 1]>>
IdParams == {IdParam(n) : n \in 1..(MaxTasks + 1)}

\* ------------------------------------------------------- POST /api/tasks
ValidBody ==
    [titulo |-> <<"a">>, proyecto |-> <<"p">>, responsable |-> "r",
     prioridad |-> "alta"]
\* A body that also names an owner, an id and a completed flag of its own.
MeddlingBody ==
    [titulo |-> <<"a">>, proyecto |-> <<"p">>, responsable |-> "r",
     prioridad |-> "alta", userId |-> 1, id |-> 9, isCompleted |-> TRUE]
RequiredKeys == {"titulo", "proyecto", "responsable", "prioridad"}
Without(body, k) == [x \in DOMAIN body \ {k} |-> body[x]]
Emptied(body, k) ==
    [body EXCEPT ![k] = IF k \in {"titulo", "proyecto"} THEN <<>> ELSE ""]
CreateBodies ==
    {ValidBody, MeddlingBody}
    \cup {Without(ValidBody, k) : k \in RequiredKeys}
    \cup {Emptied(ValidBody, k) : k \in RequiredKeys}

\* Mutant: a field counts as missing only when it is undefined, so that an
\* empty string passes.
MissingRequiredUndefinedOnly(body) ==
    \/ ~Has(body, "titulo")
    \/ ~Has(body, "proyecto")
    \/ ~Has(body, "responsable")
    \/ ~Has(body, "prioridad")

\* !titulo || !proyecto || !responsable || !prioridad
MissingRequired(body) ==
    \/ FalsyText(body, "titulo")
    \/ FalsyText(body, "proyecto")
    \/ FalsyStr(body, "responsable")
    \/ FalsyStr(body, "prioridad")

\* Mutant: the whole body is handed to create, so that a userId, an id or an
\* isCompleted in it is stored.
NewTaskFromBody(body, userId) ==
    [id |-> nextTaskId,
     userId |-> IF Has(body, "userId") THEN body.userId ELSE userId,
     proyecto |-> body.proyecto,
     responsable |-> body.responsable,
     titulo |-> body.titulo,
     descripcion |-> IF Has(body, "descripcion") THEN body.descripcion
                     ELSE NullText,
     fechaVencimiento |-> IF TruthyDate(body, "fechaVencimiento")
                          THEN body.fechaVencimiento ELSE NullDate,
     fechaTerminada |-> NullDate,
     prioridad |-> body.prioridad,
     isCompleted |-> IF Has(body, "isCompleted") THEN body.isCompleted
                     ELSE FALSE]

\* The row prisma.task.create writes for data { proyecto, responsable, titulo,
\* descripcion, fechaVencimiento, prioridad, userId }: the id is the table's
\* AUTO_INCREMENT, isCompleted defaults to false, what is undefined is NULL.
NewTask(body, userId) ==
    [id |-> nextTaskId,
     userId |-> userId,
     proyecto |-> body.proyecto,
     responsable |-> body.responsable,
     titulo |-> body.titulo,
     descripcion |-> IF Has(body, "descripcion") THEN body.descripcion
                     ELSE NullText,
     fechaVencimiento |-> IF TruthyDate(body, "fechaVencimiento")
                          THEN body.fechaVencimiento ELSE NullDate,
     fechaTerminada |-> NullDate,
     prioridad |-> body.prioridad,
     isCompleted |-> FALSE]

PostTasks(c) ==
    /\ pc[c] = "create"
    /\ \E body \in CreateBodies :
         /\ req' = [req EXCEPT ![c].body = body]
         /\ IF MissingRequired(body)
            THEN /\ Send(c, 400, Error("Faltan campos obligatorios"))
                 /\ UNCHANGED <<tasks, nextTaskId>>
            ELSE /\ nextTaskId <= MaxTasks
                 /\ tasks' = tasks \cup {NewTask(body, reqUser[c].userId)}
                 /\ nextTaskId' = nextTaskId + 1
                 /\ Send(c, 201, NewTask(body, reqUser[c].userId))
    /\ Goto(c, "idle")
    /\ UNCHANGED <<users, nextUserId, now, held, reqUser, nextCalled>>

\* ----------------------------------------------- PUT /api/tasks/:id
UpdateBodies ==
    {<<>>,
     [isCompleted |-> TRUE, fechaTerminada |-> 1],
     [fechaTerminada |-> NullDate],
     [userId |-> 2, id |-> 9]}

\* Mutant: the where clause names the id alone.
TaskWhereNoOwner(t, idParam, user) ==
    /\ ~parseInt(idParam).nan
    /\ t.id = parseInt(idParam).n

\* Mutant: the where clause names the owner alone.
TaskWhereOwnerOnly(t, idParam, user) ==
    user.role # "ADMIN" => t.userId = user.userId

\* taskWhereClause: { id: parseInt(id) } and, unless the caller is ADMIN,
\* userId: the caller's
TaskWhere(t, idParam, user) ==
    /\ ~parseInt(idParam).nan
    /\ t.id = parseInt(idParam).n
    /\ (user.role # "ADMIN" => t.userId = user.userId)

\* const parsedFechaTerminada = fechaTerminada ? new Date(fechaTerminada) : null
parsedFechaTerminada(body) ==
    IF TruthyDate(body, "fechaTerminada") THEN body.fechaTerminada
    ELSE NullDate

\* Mutant: the body's userId is among the data of the update.
UpdateDataWithOwner(t, body) ==
    [t EXCEPT !.userId = IF Has(body, "userId") THEN body.userId ELSE @,
              !.fechaTerminada = IF TruthyDate(body, "fechaTerminada")
                                 THEN body.fechaTerminada ELSE NullDate,
              !.isCompleted = IF Has(body, "isCompleted")
                              THEN body.isCompleted ELSE @]

\* The row after prisma.task.update with data { proyecto, responsable, titulo,
\* descripcion, fechaVencimiento, fechaTerminada, prioridad, isCompleted }:
\* a property that is undefined leaves its column alone, null clears it.
Keep(body, k, old) == IF Has(body, k) THEN body[k] ELSE old
UpdateData(t, body) ==
    [id |-> t.id,
     userId |-> t.userId,
     proyecto |-> Keep(body, "proyecto", t.proyecto),
     responsable |-> Keep(body, "responsable", t.responsable),
     titulo |-> Keep(body, "titulo", t.titulo),
     descripcion |-> Keep(body, "descripcion", t.descripcion),
     fechaVencimiento |-> IF TruthyDate(body, "fechaVencimiento")
                          THEN body.fechaVencimiento ELSE t.fechaVencimiento,
     fechaTerminada |-> parsedFechaTerminada(body),
     prioridad |-> Keep(body, "prioridad", t.prioridad),
     isCompleted |-> Keep(body, "isCompleted", t.isCompleted)]

\* Mutant: the update is an upsert, so that a row that is not there is
\* written from the body.
PutTaskUpsert(c) ==
    /\ pc[c] = "update"
    /\ \E idParam \in IdParams, body \in UpdateBodies :
         LET hit == {t \in tasks : TaskWhere(t, idParam, reqUser[c])}
             new == [id |-> parseInt(idParam).n, userId |-> reqUser[c].userId,
                     proyecto |-> <<"p">>, responsable |-> "r",
                     titulo |-> <<"a">>, descripcion |-> NullText,
                     fechaVencimiento |-> NullDate,
                     fechaTerminada |-> parsedFechaTerminada(body),
                     prioridad |-> "alta",
                     isCompleted |-> Keep(body, "isCompleted", FALSE)]
         IN  /\ req' = [req EXCEPT ![c].body = body,
                                   ![c].id = parseInt(idParam).n]
             /\ IF hit = {}
                THEN /\ tasks' = {t \in tasks : t.id # new.id} \cup {new}
                     /\ Send(c, 200, new)
                ELSE LET t == CHOOSE x \in hit : TRUE
                     IN  /\ tasks' = (tasks \ {t}) \cup {UpdateData(t, body)}
                         /\ Send(c, 200, UpdateData(t, body))
    /\ Goto(c, "idle")
    /\ UNCHANGED <<users, nextUserId, nextTaskId, now, held, reqUser,
                   nextCalled>>

\* prisma.task.update throws P2025 when no row matches the where clause; the
\* catch answers 404.
PutTask(c) ==
    /\ pc[c] = "update"
    /\ \E idParam \in IdParams, body \in UpdateBodies :
         LET hit == {t \in tasks : TaskWhere(t, idParam, reqUser[c])}
         IN  /\ req' = [req EXCEPT ![c].body = body,
                                   ![c].id = parseInt(idParam).n]
             /\ IF hit = {}
                THEN /\ Send(c, 404, Error("Tarea no encontrada o no tienes permiso"))
                     /\ UNCHANGED tasks
                ELSE LET t == CHOOSE x \in hit : TRUE
                     IN  /\ tasks' = (tasks \ {t}) \cup {UpdateData(t, body)}
                         /\ Send(c, 200, UpdateData(t, body))
    /\ Goto(c, "idle")
    /\ UNCHANGED <<users, nextUserId, nextTaskId, now, held, reqUser,
                   nextCalled>>

\* --------------------------------------------- DELETE /api/tasks/:id
\* Mutant: the delete does not throw when no row matches (as deleteMany
\* would), so that the handler answers 204 whatever it removed.
DeleteTaskNoThrow(c) ==
    /\ pc[c] = "delete"
    /\ \E idParam \in IdParams :
         LET hit == {t \in tasks : TaskWhere(t, idParam, reqUser[c])}
         IN  /\ req' = [req EXCEPT ![c].id = parseInt(idParam).n]
             /\ tasks' = tasks \ hit
             /\ Send(c, 204, NoBody)
    /\ Goto(c, "idle")
    /\ UNCHANGED <<users, nextUserId, nextTaskId, now, held, reqUser,
                   nextCalled>>

\* prisma.task.delete throws P2025 when no row matches the where clause; the
\* catch answers 404.
DeleteTask(c) ==
    /\ pc[c] = "delete"
    /\ \E idParam \in IdParams :
         LET hit == {t \in tasks : TaskWhere(t, idParam, reqUser[c])}
         IN  /\ req' = [req EXCEPT ![c].id = parseInt(idParam).n]
             /\ IF hit = {}
                THEN /\ Send(c, 404, Error("Tarea no encontrada o no tienes permiso"))
                     /\ UNCHANGED tasks
                ELSE /\ tasks' = tasks \ hit
                     /\ Send(c, 204, NoBody)
    /\ Goto(c, "idle")
    /\ UNCHANGED <<users, nextUserId, nextTaskId, now, held, reqUser,
                   nextCalled>>

\* ------------------------------------------------------ GET /api/tasks
Queries ==
    {<<>>,
     [isCompleted |-> "true"],
     [search |-> <<"a">>],
     [page |-> <<"2">>, limit |-> <<"1">>]}

\* { contains: sub }: sub occurs in s; a NULL column matches nothing
Contains(s, sub) ==
    /\ s # NullText
    /\ \E i \in 0..(Len(s) - Len(sub)) : SubSeq(s, i + 1, i + Len(sub)) = sub

\* Mutant: the owner restriction is applied whatever the caller's role.
WhereClauseOwnerAlways(t, user, query) ==
    /\ t.userId = user.userId
    /\ (~FalsyText(query, "search") =>
            \/ Contains(t.titulo, query.search)
            \/ Contains(t.descripcion, query.search))
    /\ (~FalsyStr(query, "priority") => t.prioridad = query.priority)
    /\ (~FalsyStr(query, "isCompleted") =>
            t.isCompleted = (query.isCompleted = "true"))
    /\ (~FalsyText(query, "proyecto") => Contains(t.proyecto, query.proyecto))

\* Mutant: the search disjunction sits beside the other conditions instead
\* of under them: OR [ { the rest }, { titulo }, { descripcion } ].
WhereClauseSearchBeside(t, user, query) ==
    \/ /\ (user.role # "ADMIN" => t.userId = user.userId)
       /\ (~FalsyStr(query, "priority") => t.prioridad = query.priority)
       /\ (~FalsyStr(query, "isCompleted") =>
               t.isCompleted = (query.isCompleted = "true"))
       /\ (~FalsyText(query, "proyecto") =>
               Contains(t.proyecto, query.proyecto))
       /\ FalsyText(query, "search")
    \/ /\ ~FalsyText(query, "search")
       /\ \/ Contains(t.titulo, query.search)
          \/ Contains(t.descripcion, query.search)

\* Mutant: an isCompleted other than 'true' and 'false' is ignored.
WhereClauseTrueFalseOnly(t, user, query) ==
    /\ (user.role # "ADMIN" => t.userId = user.userId)
    /\ (~FalsyText(query, "search") =>
            \/ Contains(t.titulo, query.search)
            \/ Contains(t.descripcion, query.search))
    /\ (~FalsyStr(query, "priority") => t.prioridad = query.priority)
    /\ ((Has(query, "isCompleted")
           /\ query.isCompleted \in {"true", "false"}) =>
            t.isCompleted = (query.isCompleted = "true"))
    /\ (~FalsyText(query, "proyecto") => Contains(t.proyecto, query.proyecto))

\* whereClause, as a predicate on a row
WhereClause(t, user, query) ==
    /\ (user.role # "ADMIN" => t.userId = user.userId)
    /\ (~FalsyText(query, "search") =>
            \/ Contains(t.titulo, query.search)
            \/ Contains(t.descripcion, query.search))
    /\ (~FalsyStr(query, "priority") => t.prioridad = query.priority)
    /\ (~FalsyStr(query, "isCompleted") =>
            t.isCompleted = (query.isCompleted = "true"))
    /\ (~FalsyText(query, "proyecto") => Contains(t.proyecto, query.proyecto))

QueryText(query, k) == IF Has(query, k) THEN query[k] ELSE <<>>
pageNum(query) == OrDefault(parseInt(QueryText(query, "page")), DefaultPage)
limitNum(query) == OrDefault(parseInt(QueryText(query, "limit")), DefaultLimit)
\* Mutant: the offset is page * limit.
skipWholePages(query) == pageNum(query) * limitNum(query)

\* const skip = (pageNum - 1) * limitNum
skip(query) == (pageNum(query) - 1) * limitNum(query)

\* Math.ceil(a / b) for a >= 0 and b # 0; a negative b gives a result <= 0
Ceil(a, b) ==
    IF b > 0 THEN (IF a % b = 0 THEN a \div b ELSE (a \div b) + 1)
    ELSE 0 - (a \div (0 - b))

\* orderBy { createdAt: 'desc' }: rows are created in the order of their ids
RECURSIVE NewestFirst(_)
NewestFirst(rows) ==
    IF rows = {} THEN <<>>
    ELSE LET m == CHOOSE t \in rows : \A u \in rows : u.id <= t.id
         IN  <<m>> \o NewestFirst(rows \ {m})

\* sortBy && sortDirection
SortGiven(query) ==
    ~FalsyStr(query, "sortBy") /\ ~FalsyStr(query, "sortDirection")

\* orderBy { [sortBy]: sortDirection }, sortDirection being 'asc' or 'desc'
RECURSIVE SortedBy(_, _, _)
SortedBy(rows, column, direction) ==
    IF rows = {} THEN <<>>
    ELSE LET m == CHOOSE t \in rows : \A u \in rows :
                     IF direction = "asc" THEN t[column] <= u[column]
                     ELSE u[column] <= t[column]
         IN  <<m>> \o SortedBy(rows \ {m}, column, direction)

\* orderByClause applied to the rows the where clause selects
Ordered(rows, query) ==
    IF SortGiven(query) THEN SortedBy(rows, query.sortBy, query.sortDirection)
    ELSE NewestFirst(rows)

Min(a, b) == IF a <= b THEN a ELSE b

Reverse(rows) == [i \in 1..Len(rows) |-> rows[Len(rows) + 1 - i]]

\* skip: off, take: n, for off >= 0.  A negative take makes Prisma read from
\* the end of the ordered rows: off rows are skipped there, -n are taken, and
\* they are returned in the order asked for.
Page(rows, off, n) ==
    IF n >= 0 THEN SubSeq(rows, off + 1, Min(off + n, Len(rows)))
    ELSE Reverse(SubSeq(Reverse(rows), off + 1, Min(off - n, Len(rows))))

\* prisma.task.findMany({ where, orderBy, skip, take })
FindMany(user, query) ==
    Page(Ordered({t \in tasks : WhereClause(t, user, query)}, query),
         skip(query), limitNum(query))

\* prisma.task.count({ where: whereClause })
Count(user, query) ==
    Cardinality({t \in tasks : WhereClause(t, user, query)})

\* The handler up to its first await, for a query string among queries.
GetTasksCountFrom(c, queries) ==
    /\ pc[c] = "list"
    /\ \E query \in queries :
         req' = [req EXCEPT ![c].query = query,
                           ![c].totalCount = Count(reqUser[c], query)]
    /\ Goto(c, "list_find")
    /\ UNCHANGED <<storeVars, now, held, reqUser, nextCalled, resp>>

GetTasksCount(c) == GetTasksCountFrom(c, Queries)

\* Mutant: totalCount is the number of rows of the page.
ListBodyCountsPage(c) ==
    [tasks |-> FindMany(reqUser[c], req[c].query),
     totalCount |-> Len(FindMany(reqUser[c], req[c].query)),
     currentPage |-> pageNum(req[c].query),
     limit |-> limitNum(req[c].query),
     totalPages |-> Ceil(req[c].totalCount, limitNum(req[c].query))]

\* { tasks, totalCount, currentPage: pageNum, limit: limitNum, totalPages }
ListBody(c) ==
    [tasks |-> FindMany(reqUser[c], req[c].query),
     totalCount |-> req[c].totalCount,
     currentPage |-> pageNum(req[c].query),
     limit |-> limitNum(req[c].query),
     totalPages |-> Ceil(req[c].totalCount, limitNum(req[c].query))]

\* prisma.task.findMany rejects a negative skip (a validation error): the
\* catch answers 500.
GetTasksFind(c) ==
    /\ pc[c] = "list_find"
    /\ IF skip(req[c].query) < 0
       THEN Send(c, 500, Error("No se pudieron obtener las tareas."))
       ELSE Send(c, 200, ListBody(c))
    /\ Goto(c, "idle")
    /\ UNCHANGED <<storeVars, now, held, req, reqUser, nextCalled>>

\* ------------------------------------------------------ specification
Next ==
    \/ Tick
    \/ \E c \in Clients :
         \/ PostRegister(c)
         \/ RegisterCreate(c)
         \/ PostLogin(c)
         \/ authenticateToken(c)
         \/ AuthLookup(c)
         \/ PostTasks(c)
         \/ GetTasksCount(c)
         \/ GetTasksFind(c)
         \/ PutTask(c)
         \/ DeleteTask(c)

Spec == Init /\ [][Next]_vars

\* ------------------------------------------------- when the store fails
\* A store call rejects (the database cannot be reached).  Inside a route's
\* try block the catch answers 500.
RegisterStoreFails(c) ==
    /\ \/ /\ Idle(c)
          /\ \E body \in RegisterBodies :
               /\ ~(FalsyStr(body, "email") \/ FalsyStr(body, "password"))
               /\ req' = [req EXCEPT ![c] =
                             Request("register", NoHeader, body, 0, NoBody, 0)]
          /\ Reply(c, 500, Error("No se pudo registrar el usuario."))
       \/ /\ pc[c] = "register_create"
          /\ Send(c, 500, Error("No se pudo registrar el usuario."))
          /\ UNCHANGED req
    /\ Goto(c, "idle")
    /\ reqUser' = [reqUser EXCEPT ![c] = NoUser]
    /\ nextCalled' = [nextCalled EXCEPT ![c] = FALSE]
    /\ UNCHANGED <<storeVars, now, held>>

LoginStoreFails(c) ==
    /\ Idle(c)
    /\ \E body \in LoginBodies :
         /\ ~(FalsyStr(body, "email") \/ FalsyStr(body, "password"))
         /\ req' = [req EXCEPT ![c] =
                       Request("login", NoHeader, body, 0, NoBody, 0)]
    /\ Reply(c, 500, Error("No se pudo iniciar sesion."))
    /\ reqUser' = [reqUser EXCEPT ![c] = NoUser]
    /\ nextCalled' = [nextCalled EXCEPT ![c] = FALSE]
    /\ UNCHANGED <<storeVars, now, held, pc>>

\* The handler's store call rejects: its catch answers 500 (for update and
\* delete: the error's code is not P2025).
HandlerStoreFails(c) ==
    /\ pc[c] \in {"create", "list", "list_find", "update", "delete"}
    /\ IF pc[c] = "create"
       THEN \E body \in CreateBodies :
              /\ ~MissingRequired(body)
              /\ req' = [req EXCEPT ![c].body = body]
       ELSE UNCHANGED req
    /\ Send(c, 500, Error("No se pudo"))
    /\ Goto(c, "idle")
    /\ UNCHANGED <<storeVars, now, held, reqUser, nextCalled>>

\* The lookup of authenticateToken rejects.  It is awaited in the async
\* callback given to jwt.verify, outside any try block, and nothing awaits
\* that callback: the rejection is unhandled, no response is sent and next()
\* is not called (the process may also exit on it; the request is unanswered
\* either way).
AuthLookupFails(c) ==
    /\ pc[c] = "auth_lookup"
    /\ Goto(c, "abandoned")
    /\ UNCHANGED <<storeVars, now, held, req, reqUser, nextCalled, resp>>

NextF ==
    \/ Next
    \/ \E c \in Clients :
         \/ RegisterStoreFails(c)
         \/ LoginStoreFails(c)
         \/ HandlerStoreFails(c)
         \/ AuthLookupFails(c)

\* The same program over a store whose calls may fail.
SpecF == Init /\ [][NextF]_vars

\* ------------------------------------------- List over a populated store
\* The list handler reads the store and writes nothing: what it answers is a
\* function of the stored tasks, the caller and the query string.  This
\* specification starts from a store other requests have filled (two users,
\* tasks that differ in owner, texts, priority and completion) and sends List
\* requests with query strings that combine every parameter.
ListUsers ==
    SeedUsers
    \cup {[id |-> 2, email |-> "e1", password |-> Hash("p1"), role |-> "USER"]}

Row(id, userId, titulo, descripcion, proyecto, prioridad, isCompleted) ==
    [id |-> id, userId |-> userId, proyecto |-> proyecto, responsable |-> "r",
     titulo |-> titulo, descripcion |-> descripcion,
     fechaVencimiento |-> NullDate, fechaTerminada |-> NullDate,
     prioridad |-> prioridad, isCompleted |-> isCompleted]

TaskPool ==
    {Row(1, 1, <<"a">>, NullText, <<"p">>, "alta", FALSE),
     Row(2, 2, <<"b">>, <<"a">>, <<"q">>, "baja", TRUE),
     Row(3, 2, <<"a", "b">>, NullText, <<"p">>, "alta", FALSE),
     Row(4, 1, <<"b">>, <<"b">>, <<"q">>, "baja", TRUE)}

\* A query parameter: not given, or given with one of the values.
Opt(k, values) == {<<>>} \cup {k :> v : v \in values}

FilterQueries ==
    {s @@ p @@ i @@ y :
        s \in Opt("search", {<<>>, <<"a">>}),
        p \in Opt("priority", {"alta"}),
        i \in Opt("isCompleted", {"", "true", "false", "1"}),
        y \in Opt("proyecto", {<<"p">>})}

PageQueries ==
    {p @@ l @@ i @@ o :
        p \in Opt("page", {<<"0">>, <<"1">>, <<"2">>, <<"-", "1">>, <<"x">>,
                            <<"2", "x">>}),
        l \in Opt("limit", {<<"0">>, <<"1">>, <<"2">>, <<"-", "1">>, <<"x">>}),
        i \in Opt("isCompleted", {"false"}),
        o \in {<<>>, ("sortBy" :> "id") @@ ("sortDirection" :> "asc")}}

ListQueries == FilterQueries \cup PageQueries

InitL ==
    /\ users = ListUsers
    /\ nextUserId = 3
    /\ tasks \in SUBSET TaskPool
    /\ nextTaskId = Cardinality(TaskPool) + 1
    /\ now = 0
    /\ held = [c \in Clients |-> <<>>]
    /\ pc = [c \in Clients |-> "idle"]
    /\ req = [c \in Clients |-> NoRequest]
    /\ reqUser = [c \in Clients |-> NoUser]
    /\ nextCalled = [c \in Clients |-> FALSE]
    /\ resp = [c \in Clients |-> <<>>]

NextL ==
    \E c \in Clients :
       \/ PostLogin(c)
       \/ Authenticate(c, {"list"})
       \/ AuthLookup(c)
       \/ GetTasksCountFrom(c, ListQueries)
       \/ GetTasksFind(c)

SpecL == InitL /\ [][NextL]_vars

\* ------------------------------------- registration with a role in the body
\* Register bodies that also name a role and an id, and the requests that
\* show what became of them: login, and List behind the middleware.
RoleBodies ==
    RegisterBodies
    \cup {[email |-> "e1", password |-> "p1", role |-> "ADMIN"],
          [email |-> "e2", password |-> "p1", role |-> "ADMIN", id |-> 1],
          [email |-> "e0", password |-> "p1", role |-> "USER"]}

NextU ==
    \/ Tick
    \/ \E c \in Clients :
         \/ PostRegisterFrom(c, RoleBodies)
         \/ RegisterCreate(c)
         \/ PostLogin(c)
         \/ Authenticate(c, {"list"})
         \/ AuthLookup(c)
         \/ GetTasksCount(c)
         \/ GetTasksFind(c)

SpecU == Init /\ [][NextU]_vars

\* ------------------------------------------- two requests in flight
Clients2 == {"c1", "c2"}

\* Two clients register at the same time: each request is suspended between
\* its findUnique and its create while the other runs.
InitR ==
    /\ users = SeedUsers
    /\ nextUserId = 2
    /\ tasks = {}
    /\ nextTaskId = 1
    /\ now = 0
    /\ held = [c \in Clients2 |-> <<>>]
    /\ pc = [c \in Clients2 |-> "idle"]
    /\ req = [c \in Clients2 |-> NoRequest]
    /\ reqUser = [c \in Clients2 |-> NoUser]
    /\ nextCalled = [c \in Clients2 |-> FALSE]
    /\ resp = [c \in Clients2 |-> <<>>]

NextR == \E c \in Clients2 : PostRegister(c) \/ RegisterCreate(c)

SpecR == InitR /\ [][NextR]_vars

\* Two task requests at the same time.  Both clients logged in at hour 0 and
\* each has sent one request to a protected route; jwt.verify accepted the
\* token and the request is suspended at the middleware's lookup.  From
\* there the two requests run in any order, step by step.
Arrived(kind, user) ==
    Request(kind, Header("Bearer", <<Sign(user.id, user.role, 0)>>), NoBody,
            0, NoBody, 0)

InitC ==
    /\ users = ListUsers
    /\ nextUserId = 3
    /\ tasks \in {{}, {Row(1, 1, <<"a">>, NullText, <<"p">>, "alta", FALSE)},
                   {Row(1, 2, <<"a">>, NullText, <<"p">>, "alta", FALSE)}}
    /\ nextTaskId = Cardinality(tasks) + 1
    /\ now = 0
    /\ req \in [Clients2 -> {Arrived(kind, user) :
                                kind \in ProtectedKinds, user \in ListUsers}]
    /\ held = [c \in Clients2 |-> req[c].header.words]
    /\ pc = [c \in Clients2 |-> "auth_lookup"]
    /\ reqUser = [c \in Clients2 |-> NoUser]
    /\ nextCalled = [c \in Clients2 |-> FALSE]
    /\ resp = [c \in Clients2 |-> <<>>]

NextC ==
    \E c \in Clients2 :
       \/ AuthLookup(c)
       \/ PostTasks(c)
       \/ GetTasksCount(c)
       \/ GetTasksFind(c)
       \/ PutTask(c)
       \/ DeleteTask(c)

SpecC == InitC /\ [][NextC]_vars

\* ================================================================ claims
LastOf(rs) == rs[Len(rs)]
StatusOf(rs) == IF rs = <<>> THEN 0 ELSE LastOf(rs).status

\* Client c's request took a step.
Stepped(c) ==
    <<pc[c], req[c], reqUser[c], nextCalled[c], resp[c]>>' #
    <<pc[c], req[c], reqUser[c], nextCalled[c], resp[c]>>

\* A request of c reaches authenticateToken in this step.
Arrives(c) == Idle(c) /\ Stepped(c) /\ req'[c].kind \in ProtectedKinds

\* The handler suspended at label finishes in this step.
Finishes(c, label) == pc[c] = label /\ pc'[c] = "idle"

\* The middleware alone answered c's request.
AnsweredOnce(c, status) ==
    /\ pc'[c] = "idle"
    /\ Len(resp'[c]) = 1
    /\ resp'[c][1].status = status
    /\ ~nextCalled'[c]

\* C1: for a caller whose role is not ADMIN, List returns only tasks the
\* caller owns, and Update or Delete aimed at the id of a task another user
\* owns answers 404 and leaves that task as it was, still in the store.
C1_OwnershipScope ==
    [][\A c \in Clients :
         reqUser[c].role # "ADMIN" =>
           /\ Finishes(c, "list_find") =>
                \A i \in 1..Len(LastOf(resp'[c]).body.tasks) :
                   LastOf(resp'[c]).body.tasks[i].userId = reqUser[c].userId
           /\ (Finishes(c, "update") \/ Finishes(c, "delete")) =>
                \A t \in tasks :
                   (t.id = req'[c].id /\ t.userId # reqUser[c].userId) =>
                      /\ StatusOf(resp'[c]) = 404
                      /\ t \in tasks']_vars

C1_Witness ==
    \E c \in Clients :
       /\ Idle(c)
       /\ req[c].kind \in {"update", "delete"}
       /\ nextCalled[c]
       /\ reqUser[c].role = "USER"
       /\ StatusOf(resp[c]) = 404
       /\ \E t \in tasks : t.id = req[c].id /\ t.userId # reqUser[c].userId

C3_ExpiredRejected ==
    [][\A c \in Clients :
         /\ (Arrives(c) /\ HasToken(req'[c].header)
               /\ held[c] = <<TokenOf(req'[c].header)>>) =>
              IF now >= TokenOf(req'[c].header).iat + ExpiresIn
              THEN AnsweredOnce(c, 403) /\ UNCHANGED storeVars
              ELSE pc'[c] = "auth_lookup"
         /\ (pc[c] = "auth_lookup" /\ Stepped(c)
               /\ held[c] = <<TokenOf(req[c].header)>>) =>
              nextCalled'[c] /\ pc'[c] = req[c].kind]_vars

C3_Witness ==
    \E c \in Clients :
       /\ Idle(c)
       /\ req[c].kind \in ProtectedKinds
       /\ HasToken(req[c].header)
       /\ held[c] = <<TokenOf(req[c].header)>>
       /\ now >= TokenOf(req[c].header).iat + ExpiresIn
       /\ Len(resp[c]) = 1
       /\ resp[c][1].status = 403
       /\ tasks # {}

\* The value a required field has when the body gives it as empty.
EmptyValue(k) == IF k \in {"titulo", "proyecto"} THEN <<>> ELSE ""
LacksRequired(body) ==
    \E k \in RequiredKeys : k \notin DOMAIN body \/ body[k] = EmptyValue(k)

\* C4: an authenticated Create whose body lacks, or gives as empty, any of
\* titulo, proyecto, responsable, prioridad is answered 400 and the stored
\* tasks are unchanged.
C4_CreateRejectsMissing ==
    [][\A c \in Clients :
         (Finishes(c, "create") /\ LacksRequired(req'[c].body)) =>
            /\ StatusOf(resp'[c]) = 400
            /\ Len(resp'[c]) = 1
            /\ tasks' = tasks
            /\ nextTaskId' = nextTaskId]_vars

C4_Witness ==
    \E c \in Clients :
       /\ Idle(c)
       /\ req[c].kind = "create"
       /\ nextCalled[c]
       /\ "prioridad" \notin DOMAIN req[c].body
       /\ StatusOf(resp[c]) = 400

\* C5: an authenticated Create with the four required fields is answered 201
\* with the created row; exactly one row is added; its titulo, proyecto,
\* responsable and prioridad are the body's, its id is one no task has or had
\* (ids below nextTaskId are the ones handed out), isCompleted is false and
\* its owner is the caller, whatever userId or id the body carries.
C5_CreateAddsOwnedTask ==
    /\ [](\A t \in tasks : t.id < nextTaskId)
    /\ [][nextTaskId' >= nextTaskId]_vars
    /\ [][\A c \in Clients :
            (Finishes(c, "create") /\ ~LacksRequired(req'[c].body)) =>
               LET b == req'[c].body
                   r == LastOf(resp'[c])
               IN  /\ r.status = 201
                   /\ Len(resp'[c]) = 1
                   /\ r.body \notin tasks
                   /\ tasks' = tasks \cup {r.body}
                   /\ r.body.titulo = b.titulo
                   /\ r.body.proyecto = b.proyecto
                   /\ r.body.responsable = b.responsable
                   /\ r.body.prioridad = b.prioridad
                   /\ r.body.id \notin TaskIds
                   /\ r.body.id >= nextTaskId
                   /\ nextTaskId' > r.body.id
                   /\ r.body.isCompleted = FALSE
                   /\ r.body.userId = reqUser[c].userId]_vars

C5_Witness ==
    \E c \in Clients :
       /\ Idle(c)
       /\ req[c].kind = "create"
       /\ StatusOf(resp[c]) = 201
       /\ Has(req[c].body, "userId")
       /\ req[c].body.userId # reqUser[c].userId
       /\ LastOf(resp[c]).body.userId = reqUser[c].userId
       /\ LastOf(resp[c]).body.id = 2

\* C6: the owner of a stored task never changes, whoever sends whatever
\* request.
C6_OwnerImmutable ==
    [][\A t \in tasks : \A u \in tasks' :
         u.id = t.id => u.userId = t.userId]_vars

C6_Witness ==
    \E c \in Clients :
       /\ Idle(c)
       /\ req[c].kind = "update"
       /\ StatusOf(resp[c]) = 200
       /\ reqUser[c].role = "ADMIN"
       /\ Has(req[c].body, "userId")
       /\ LastOf(resp[c]).body.userId # req[c].body.userId

\* An email some register request was answered 201 for: a row with it that
\* the API created.
Registered(email) == \E u \in users \ SeedUsers : u.email = email

\* C7: once a register request for an email has been answered 201, every
\* later register request giving that email and a password is answered
\* 409 and creates no user, and no user row ever changes.
C7_SecondRegisterConflicts ==
    /\ [][\A c \in Clients :
            (/\ Idle(c) /\ Stepped(c)
             /\ req'[c].kind = "register"
             /\ ~LET b == req'[c].body
                 IN  \/ "email" \notin DOMAIN b \/ "password" \notin DOMAIN b
                     \/ b.email = "" \/ b.password = ""
             /\ Registered(req'[c].body.email)) =>
               /\ pc'[c] = "idle"
               /\ Len(resp'[c]) = 1
               /\ resp'[c][1].status = 409
               /\ users' = users]_vars
    /\ [][\A u \in users : u \in users']_vars
    /\ [](\A u, v \in users : u.email = v.email => u = v)

C7_Witness ==
    \E c \in Clients :
       /\ Idle(c)
       /\ req[c].kind = "register"
       /\ StatusOf(resp[c]) = 409
       /\ \E u \in users \ SeedUsers :
            /\ u.email = req[c].body.email
            /\ u.password # Hash(req[c].body.password)

\* C8: every request that reached a handler or the middleware has exactly
\* one response once it is no longer in flight, none has two, and none is
\* left without one; stated for a store whose calls may fail.
C8_EveryRequestAnswered ==
    \A c \in Clients :
       /\ Len(resp[c]) <= 1
       /\ pc[c] # "abandoned"
       /\ (Idle(c) /\ req[c].kind # "none") => Len(resp[c]) = 1

TaskFields ==
    {"proyecto", "responsable", "titulo", "descripcion", "fechaVencimiento",
     "fechaTerminada", "prioridad", "isCompleted"}

\* C9: an Update leaves every field its body omits as it was; fechaTerminada
\* is cleared only by a body that gives it as null.
C9_OmittedFieldsKept ==
    [][\A c \in Clients :
         (Finishes(c, "update") /\ StatusOf(resp'[c]) = 200) =>
            \A old \in tasks : \A new \in tasks' :
               (old.id = req'[c].id /\ new.id = old.id) =>
                  /\ \A k \in TaskFields \ DOMAIN req'[c].body :
                        new[k] = old[k]
                  /\ (old.fechaTerminada # NullDate
                        /\ new.fechaTerminada = NullDate) =>
                       /\ Has(req'[c].body, "fechaTerminada")
                       /\ req'[c].body.fechaTerminada = NullDate]_vars

\* The rows the caller's (id, ownership) restriction selects.
Selected(c, id) ==
    {t \in tasks : t.id = id
                   /\ (reqUser[c].role = "ADMIN" \/ t.userId = reqUser[c].userId)}

\* C10: an Update whose (id, ownership) restriction selects no stored task is
\* answered 404 and changes no task; one that selects a task is answered 200
\* with the updated row and changes that task alone.
C10_UpdateNotFoundOrOne ==
    [][\A c \in Clients :
         Finishes(c, "update") =>
            IF Selected(c, req'[c].id) = {}
            THEN /\ StatusOf(resp'[c]) = 404
                 /\ Len(resp'[c]) = 1
                 /\ tasks' = tasks
            ELSE /\ StatusOf(resp'[c]) = 200
                 /\ Len(resp'[c]) = 1
                 /\ LastOf(resp'[c]).body \in tasks'
                 /\ LastOf(resp'[c]).body.id = req'[c].id
                 /\ {t.id : t \in tasks'} = TaskIds
                 /\ \A t \in tasks : t.id # req'[c].id => t \in tasks']_vars

C10_Witness ==
    \E c \in Clients :
       /\ Idle(c)
       /\ req[c].kind = "update"
       /\ StatusOf(resp[c]) = 200
       /\ Cardinality(tasks) = 2
       /\ LastOf(resp[c]).body.isCompleted

C10_WitnessNotFound ==
    \E c \in Clients :
       /\ Idle(c)
       /\ req[c].kind = "update"
       /\ nextCalled[c]
       /\ StatusOf(resp[c]) = 404
       /\ tasks # {}
       /\ req[c].id \notin TaskIds

\* C11: a Delete whose (id, ownership) restriction selects no stored task is
\* answered 404 and leaves the tasks as they were; one that selects a task is
\* answered 204 and removes that task alone.  An id that was handed out and
\* is no longer stored never comes back (new ids are above every id handed
\* out), so once a Delete of id i succeeded every later Delete of i is
\* answered 404 and changes nothing.
C11_DeleteNotFoundOrOne ==
    /\ [](\A t \in tasks : t.id < nextTaskId)
    /\ [][/\ tasks' # tasks =>
               \A t \in tasks' : t.id < nextTaskId => t.id \in TaskIds
          /\ \A c \in Clients :
               Finishes(c, "delete") =>
                  IF Selected(c, req'[c].id) = {}
                  THEN /\ StatusOf(resp'[c]) = 404
                       /\ Len(resp'[c]) = 1
                       /\ tasks' = tasks
                  ELSE /\ StatusOf(resp'[c]) = 204
                       /\ Len(resp'[c]) = 1
                       /\ Cardinality(Selected(c, req'[c].id)) = 1
                       /\ tasks' = tasks \ Selected(c, req'[c].id)
                       /\ req'[c].id \notin {t.id : t \in tasks'}]_vars

\* A Delete of an id that was handed out and has been deleted: answered 404.
C11_Witness ==
    \E c \in Clients :
       /\ Idle(c)
       /\ req[c].kind = "delete"
       /\ nextCalled[c]
       /\ StatusOf(resp[c]) = 404
       /\ req[c].id < nextTaskId
       /\ req[c].id \notin TaskIds
       /\ tasks # {}

\* sub occurs in the text s, character by character.
Occurs(sub, s) ==
    \E i \in 1..(Len(s) + 1) :
       /\ i + Len(sub) - 1 <= Len(s)
       /\ \A j \in 1..Len(sub) : s[i + j - 1] = sub[j]

\* A query parameter that was given and is not empty: a text, a plain string.
GivenText(query, k) == k \in DOMAIN query /\ query[k] # <<>>
GivenStr(query, k) == k \in DOMAIN query /\ query[k] # ""

\* What the query's search, priority and proyecto ask of a row.
SatisfiesTexts(t, query) ==
    /\ GivenText(query, "search") =>
          \/ Occurs(query.search, t.titulo)
          \/ (t.descripcion # NullText /\ Occurs(query.search, t.descripcion))
    /\ GivenStr(query, "priority") => t.prioridad = query.priority
    /\ GivenText(query, "proyecto") => Occurs(query.proyecto, t.proyecto)

\* What the query's own parameters ask of a row, the caller aside.
Satisfies(t, query) ==
    /\ SatisfiesTexts(t, query)
    /\ GivenStr(query, "isCompleted") =>
          IF query.isCompleted = "true" THEN t.isCompleted ELSE ~t.isCompleted

\* The tasks a caller may see: all of them for ADMIN, the caller's otherwise.
Scope(user) ==
    IF user.role = "ADMIN" THEN tasks
    ELSE {t \in tasks : t.userId = user.userId}

\* The List request of c is answered 200 in this step.
Lists(c) == Finishes(c, "list_find") /\ StatusOf(resp'[c]) = 200
Unpaged(query) == {"page", "limit"} \cap DOMAIN query = {}

RowsOf(body) == {body.tasks[i] : i \in 1..Len(body.tasks)}

\* C12: for a caller whose stored role is ADMIN no ownership restriction
\* applies: List counts, and returns from, the tasks of all users that meet
\* the query's parameters, and Update and Delete succeed on the id of any
\* stored task, whoever owns it.
C12_AdminUnscoped ==
    [][\A c \in Clients :
         reqUser[c].role = "ADMIN" =>
           /\ Finishes(c, "list_find") =>
                LET body == LastOf(resp'[c]).body
                    all  == {t \in tasks : Satisfies(t, req[c].query)}
                IN  /\ StatusOf(resp'[c]) = 200
                    /\ body.totalCount = Cardinality(all)
                    /\ RowsOf(body) \subseteq all
                    /\ ({"page", "limit"} \cap DOMAIN req[c].query = {}
                          /\ Cardinality(all) <= DefaultLimit) => RowsOf(body) = all
           /\ (Finishes(c, "update") /\ req'[c].id \in TaskIds) =>
                /\ StatusOf(resp'[c]) = 200
                /\ LastOf(resp'[c]).body \in tasks'
           /\ (Finishes(c, "delete") /\ req'[c].id \in TaskIds) =>
                /\ StatusOf(resp'[c]) = 204
                /\ req'[c].id \notin {t.id : t \in tasks'}]_vars

\* An ADMIN's List answered with a task another user owns.
C12_Witness ==
    \E c \in Clients :
       /\ Idle(c)
       /\ req[c].kind = "list"
       /\ reqUser[c].role = "ADMIN"
       /\ StatusOf(resp[c]) = 200
       /\ \E t \in RowsOf(LastOf(resp[c]).body) : t.userId # reqUser[c].userId

\* C17: login answers 200 with a token only when a user row has the given
\* email and its stored hash is the given password's; the token then carries
\* that row's id and role and expires one hour after it was issued.  For an
\* email no row has and for a password that does not match, the answer is
\* one and the same 401, without a token; for a missing or empty email or
\* password it is 400.  Login leaves the users as they were.
C17_LoginOutcomes ==
    [][\A c \in Clients :
         (req'[c].kind = "login" /\ Idle(c) /\ Stepped(c)) =>
            LET b    == req'[c].body
                r    == resp'[c][1]
                rows == IF {"email", "password"} \subseteq DOMAIN b
                        THEN {u \in users : /\ u.email = b.email
                                             /\ u.password = Hash(b.password)}
                        ELSE {}
            IN  /\ Len(resp'[c]) = 1
                /\ users' = users
                /\ nextUserId' = nextUserId
                /\ IF \/ "email" \notin DOMAIN b \/ "password" \notin DOMAIN b
                      \/ b.email = "" \/ b.password = ""
                   THEN r.status = 400 /\ "token" \notin DOMAIN r.body
                   ELSE IF rows = {}
                   THEN r = [status |-> 401,
                             body |-> [error |-> "Credenciales invalidas."]]
                   ELSE /\ r.status = 200
                        /\ \E u \in rows :
                             /\ r.body.token.userId = u.id
                             /\ r.body.token.role = u.role
                             /\ r.body.user.id = u.id
                        /\ r.body.token.sig = "JWT_SECRET"
                        /\ r.body.token.exp = now + ExpiresIn]_vars

\* A login with the email of a registered user and another password: 401.
C17_Witness ==
    \E c \in Clients :
       /\ Idle(c)
       /\ req[c].kind = "login"
       /\ StatusOf(resp[c]) = 401
       /\ \E u \in users \ SeedUsers :
            /\ u.email = req[c].body.email
            /\ u.password # Hash(req[c].body.password)

\* C13: whatever combination of search, priority, isCompleted and proyecto
\* the query gives, List counts and returns exactly the tasks that meet every
\* given parameter and, for a caller who is not ADMIN, are the caller's: the
\* search disjunction is one conjunct among the others, and no returned task
\* is outside the caller's scope.
C13_FilterIsConjunction ==
    [][\A c \in Clients :
         Lists(c) =>
            LET body == LastOf(resp'[c]).body
                want == {t \in Scope(reqUser[c]) : Satisfies(t, req[c].query)}
            IN  /\ body.totalCount = Cardinality(want)
                /\ RowsOf(body) \subseteq want
                /\ Unpaged(req[c].query) => RowsOf(body) = want
                /\ reqUser[c].role # "ADMIN" =>
                      \A t \in RowsOf(body) : t.userId = reqUser[c].userId]_vars

\* A caller who is not ADMIN searches with a second parameter; a task of the
\* caller is returned while a task of another user that meets the query is
\* stored.
C13_Witness ==
    \E c \in Clients :
       /\ Idle(c)
       /\ req[c].kind = "list"
       /\ StatusOf(resp[c]) = 200
       /\ reqUser[c].role # "ADMIN"
       /\ {"search", "priority"} \subseteq DOMAIN req[c].query
       /\ req[c].query.search # <<>>
       /\ LastOf(resp[c]).body.tasks # <<>>
       /\ \E t \in tasks :
            t.userId # reqUser[c].userId /\ Satisfies(t, req[c].query)

\* C14: List with isCompleted 'true' counts and returns completed tasks only;
\* with 'false' or any other non-empty value, tasks that are not completed
\* only; with the parameter absent or empty, tasks of both states.
C14_CompletedFilter ==
    [][\A c \in Clients :
         Lists(c) =>
            LET q     == req[c].query
                body  == LastOf(resp'[c]).body
                other == {t \in Scope(reqUser[c]) : SatisfiesTexts(t, q)}
            IN  IF "isCompleted" \notin DOMAIN q \/ q.isCompleted = ""
                THEN /\ body.totalCount = Cardinality(other)
                     /\ Unpaged(q) => RowsOf(body) = other
                ELSE IF q.isCompleted = "true"
                THEN /\ \A t \in RowsOf(body) : t.isCompleted = TRUE
                     /\ body.totalCount =
                           Cardinality({t \in other : t.isCompleted})
                ELSE /\ \A t \in RowsOf(body) : t.isCompleted = FALSE
                     /\ body.totalCount =
                           Cardinality({t \in other : ~t.isCompleted})]_vars

\* isCompleted=1: tasks that are not completed are returned, a completed one
\* of the caller's scope is stored and left out.
C14_Witness ==
    \E c \in Clients :
       /\ Idle(c)
       /\ req[c].kind = "list"
       /\ StatusOf(resp[c]) = 200
       /\ "isCompleted" \in DOMAIN req[c].query
       /\ req[c].query.isCompleted = "1"
       /\ LastOf(resp[c]).body.tasks # <<>>
       /\ \E t \in Scope(reqUser[c]) : t.isCompleted

\* The integer a page or limit value of the requests denotes, for the values
\* that are decimal numerals.
Numerals == {<<"0">>, <<"1">>, <<"2">>, <<"-", "1">>}
Denoted(text) ==
    CASE text = <<"0">> -> 0
      [] text = <<"1">> -> 1
      [] text = <<"2">> -> 2
      [] text = <<"-", "1">> -> 0 - 1

\* The position of row t among rows in the order the query asks for: by id
\* upwards for sortBy=id, sortDirection=asc; newest (highest id) first when
\* no order is asked for.
PositionOf(t, rows, query) ==
    IF "sortBy" \in DOMAIN query
    THEN 1 + Cardinality({u \in rows : u.id < t.id})
    ELSE 1 + Cardinality({u \in rows : u.id > t.id})

\* C15: List with page p >= 1 and limit l >= 1 returns the rows at positions
\* (p-1)*l+1 .. min(p*l, totalCount) of the filtered tasks in the order asked
\* for, totalCount is the number of filtered tasks and totalPages is
\* ceil(totalCount / l): the least n with n * l >= totalCount.
C15_PageWindow ==
    [][\A c \in Clients :
         (/\ Finishes(c, "list_find")
          /\ {"page", "limit"} \subseteq DOMAIN req[c].query
          /\ req[c].query.page \in Numerals
          /\ req[c].query.limit \in Numerals
          /\ Denoted(req[c].query.page) >= 1
          /\ Denoted(req[c].query.limit) >= 1) =>
            LET q     == req[c].query
                p     == Denoted(q.page)
                l     == Denoted(q.limit)
                body  == LastOf(resp'[c]).body
                rows  == {t \in Scope(reqUser[c]) : Satisfies(t, q)}
                total == Cardinality(rows)
                last  == IF p * l <= total THEN p * l ELSE total
            IN  /\ StatusOf(resp'[c]) = 200
                /\ body.totalCount = total
                /\ Len(body.tasks) =
                      IF last >= (p - 1) * l THEN last - (p - 1) * l ELSE 0
                /\ \A i \in 1..Len(body.tasks) :
                      /\ body.tasks[i] \in rows
                      /\ PositionOf(body.tasks[i], rows, q) = (p - 1) * l + i
                /\ body.totalPages * l >= total
                /\ (body.totalPages - 1) * l < total
                /\ body.totalPages >= 0]_vars

\* page=2, limit=2 over four filtered tasks: rows 3 and 4 are returned.
C15_Witness ==
    \E c \in Clients :
       /\ Idle(c)
       /\ req[c].kind = "list"
       /\ StatusOf(resp[c]) = 200
       /\ {"page", "limit"} \subseteq DOMAIN req[c].query
       /\ req[c].query.page = <<"2">>
       /\ req[c].query.limit = <<"2">>
       /\ LastOf(resp[c]).body.totalCount = 4
       /\ Len(LastOf(resp[c]).body.tasks) = 2
       /\ LastOf(resp[c]).body.totalPages = 2

\* The List request of c was answered 200.
ListAnswered(c) ==
    Idle(c) /\ req[c].kind = "list" /\ StatusOf(resp[c]) = 200

\* The part of a value parseInt reads: its leading numeral, if it has one.
NoNumeral == {<<"x">>}
Leading(text) == IF text = <<"2", "x">> THEN <<"2">> ELSE text

\* What a page or limit value resolves to when every value that is not a
\* whole numeral, and only such a value, falls back to fallback.
ResolvedAsStated(query, k, fallback) ==
    IF k \notin DOMAIN query \/ query[k] \notin Numerals THEN fallback
    ELSE Denoted(query[k])

\* What it resolves to when a value without a leading numeral and a value
\* that denotes 0 fall back, and any other value gives its leading numeral.
ResolvedAsAmended(query, k, fallback) ==
    IF k \notin DOMAIN query \/ query[k] \in NoNumeral THEN fallback
    ELSE IF Denoted(Leading(query[k])) = 0 THEN fallback
    ELSE Denoted(Leading(query[k]))

C20_PagingInRange ==
    \A c \in Clients :
       /\ pc[c] = "list_find" =>
            /\ skip(req[c].query) >= 0
            /\ limitNum(req[c].query) >= 1
       /\ ListAnswered(c) => LastOf(resp[c]).body.totalPages >= 0

\* C18: however two or more register requests for one email interleave (each
\* a findUnique, then a create), at most one of them is answered 201: a 201
\* is given only by a create that found no row with the email and added one,
\* rows are never removed, and no two requests stand answered 201 for one
\* email; in every state at most one user row carries an email.
C18_OneRegistrationPerEmail ==
    /\ [](\A u, v \in users : u.email = v.email => u = v)
    /\ [](\A c, d \in Clients2 :
            (/\ c # d
             /\ req[c].kind = "register" /\ req[d].kind = "register"
             /\ StatusOf(resp[c]) = 201 /\ StatusOf(resp[d]) = 201) =>
               req[c].body.email # req[d].body.email)
    /\ [][\A c \in Clients2 :
            (Stepped(c) /\ req'[c].kind = "register"
               /\ StatusOf(resp'[c]) = 201) =>
               /\ ~\E u \in users : u.email = req'[c].body.email
               /\ \E u \in users' :
                    /\ u.email = req'[c].body.email
                    /\ users' = users \cup {u}]_vars
    /\ [][users \subseteq users']_vars

\* Two registrations of one email both passed the existence check; one was
\* answered 201, the other lost the create.
C18_Witness ==
    \E c, d \in Clients2 :
       /\ c # d
       /\ Idle(c) /\ Idle(d)
       /\ req[c].kind = "register" /\ req[d].kind = "register"
       /\ req[c].body.email = req[d].body.email
       /\ StatusOf(resp[c]) = 201
       /\ StatusOf(resp[d]) = 500

\* The tasks of c's scope that meet c's query, in the current store.
Matching(c, query) == {t \in Scope(reqUser[c]) : Satisfies(t, query)}

\* C19 (as stated): in every List response, whatever Create and Delete
\* requests run at the same time, the number of tasks returned is at most
\* totalCount, and totalCount is the number of stored tasks that meet the
\* filter at the moment the rows are read.
C19_CountAndRowsAgree ==
    [][\A c \in Clients2 :
         Lists(c) =>
            /\ Len(LastOf(resp'[c]).body.tasks)
                  <= LastOf(resp'[c]).body.totalCount
            /\ LastOf(resp'[c]).body.totalCount =
                  Cardinality(Matching(c, req[c].query))]_vars

\* C19 (amended): totalCount is the number of stored tasks that meet the
\* filter at the moment the count is read; the tasks returned are tasks that
\* meet it at the moment the rows are read, all of them when the query gives
\* no page and no limit and there are at most ten.  The two moments differ.
C19_CountThenRows ==
    /\ [][\A c \in Clients2 :
            (pc[c] = "list" /\ pc'[c] = "list_find") =>
               req'[c].totalCount =
                  Cardinality(Matching(c, req'[c].query))]_vars
    /\ [][\A c \in Clients2 :
            Lists(c) =>
               LET body == LastOf(resp'[c]).body
               IN  /\ body.totalCount = req[c].totalCount
                   /\ RowsOf(body) \subseteq Matching(c, req[c].query)
                   /\ (Unpaged(req[c].query)
                         /\ Cardinality(Matching(c, req[c].query)) <= 10) =>
                        RowsOf(body) = Matching(c, req[c].query)]_vars

\* A List answered with more tasks than its totalCount: a Create of the
\* other client ran between the count and the rows.
C19_Witness ==
    \E c \in Clients2 :
       /\ ListAnswered(c)
       /\ Len(LastOf(resp[c]).body.tasks) > LastOf(resp[c]).body.totalCount

\* The users the API created: every row but the seeded ones.
Created == {u \in users : \A v \in SeedUsers : v.id # u.id}

\* C21: every user row the API creates has role USER, whatever role or id the
\* register body names; no request changes the role of a stored user (the
\* seeded rows stay as they are); and the role the middleware attaches for a
\* user the API created is USER.
C21_CreatedUsersAreUser ==
    /\ [](\A u \in Created : u.role = "USER")
    /\ [](SeedUsers \subseteq users)
    /\ [][\A u \in users : \E v \in users' :
            v.id = u.id /\ v.role = u.role]_vars
    /\ [](\A c \in Clients :
            (nextCalled[c] /\ \E u \in Created : u.id = reqUser[c].userId) =>
               reqUser[c].role = "USER")
    /\ [][\A c \in Clients :
            (req'[c].kind = "login" /\ StatusOf(resp'[c]) = 200
               /\ \E u \in Created : u.id = resp'[c][1].body.user.id) =>
               /\ resp'[c][1].body.token.role = "USER"
               /\ resp'[c][1].body.user.role = "USER"]_vars

\* A register whose body names role ADMIN was answered 201 with role USER,
\* and the row stored for it has role USER.
C21_Witness ==
    \E c \in Clients :
       /\ Idle(c)
       /\ req[c].kind = "register"
       /\ StatusOf(resp[c]) = 201
       /\ "role" \in DOMAIN req[c].body
       /\ req[c].body.role = "ADMIN"
       /\ LastOf(resp[c]).body.role = "USER"
       /\ \E u \in Created : u.email = req[c].body.email /\ u.role = "USER"

HandlerLabels == {"create", "list", "list_find", "update", "delete"}

\* The request of c carries a token this server signed for the stored user
\* that is attached to it, and the middleware called next() for it.
Identified(c) ==
    /\ nextCalled[c]
    /\ req[c].header.present
    /\ Len(req[c].header.words) >= 1
    /\ req[c].header.words[1].sig = "JWT_SECRET"
    /\ \E u \in users :
         /\ u.id = req[c].header.words[1].userId
         /\ reqUser[c] = [userId |-> u.id, role |-> u.role]

\* C22: on every protected route authentication comes first.  A handler is
\* running only for a request the middleware identified; a request it did
\* not identify is answered 401, 403 or 404 and nothing else, its body, route
\* parameter and query are never read (so a Create without a valid token is
\* not answered 400, whatever its body), and the tasks change only in a step
\* of the handler of an identified request.
C22_AuthBeforeHandler ==
    /\ [](\A c \in Clients :
            /\ pc[c] \in HandlerLabels => Identified(c)
            /\ (req[c].kind \in ProtectedKinds /\ ~nextCalled[c]) =>
                  /\ pc[c] \in {"idle", "auth_lookup"}
                  /\ req[c].body = NoBody
                  /\ req[c].query = NoBody
                  /\ req[c].id = 0
                  /\ IF pc[c] = "idle"
                     THEN /\ Len(resp[c]) = 1
                          /\ resp[c][1].status \in {401, 403, 404}
                     ELSE resp[c] = <<>>
            /\ (req[c].kind \in ProtectedKinds /\ resp[c] # <<>>
                  /\ StatusOf(resp[c]) \notin {401, 403, 404}) =>
                  Identified(c))
    /\ [][(tasks' # tasks \/ nextTaskId' # nextTaskId) =>
            \E c \in Clients :
               /\ pc[c] \in {"create", "update", "delete"}
               /\ pc'[c] = "idle"
               /\ Identified(c)]_vars

\* A Create without a token, answered 401 by the middleware: its body was
\* not read, and tasks are stored.
C22_Witness ==
    \E c \in Clients :
       /\ Idle(c)
       /\ req[c].kind = "create"
       /\ ~nextCalled[c]
       /\ resp[c] # <<>>
       /\ resp[c][1].status = 401
       /\ req[c].body = NoBody
       /\ tasks # {}

\* The Delete of c was answered.
DeleteAnswered(c) == Idle(c) /\ req[c].kind = "delete" /\ resp[c] # <<>>

\* C23: when Delete requests for one stored task run at the same time, the
\* first to reach the store with a restriction that selects the task is
\* answered 204 and removes it, every other is answered 404 and changes
\* nothing: no two are answered 204 for one id, and of two ADMIN callers
\* deleting a stored id exactly one is.  An Update that runs beside a Delete
\* of its task is answered 200 while the task is stored, or 404 once it is
\* gone, and a task that is gone is never stored again.
C23_DeleteOnceNoRevival ==
    /\ [](\A c, d \in Clients2 :
            (c # d /\ DeleteAnswered(c) /\ DeleteAnswered(d)
               /\ req[c].id = req[d].id) =>
               /\ ~(StatusOf(resp[c]) = 204 /\ StatusOf(resp[d]) = 204)
               /\ (/\ reqUser[c].role = "ADMIN" /\ reqUser[d].role = "ADMIN"
                   /\ req[c].id < nextTaskId) =>
                     {StatusOf(resp[c]), StatusOf(resp[d])} = {204, 404})
    /\ [][\A c \in Clients2 :
            /\ Finishes(c, "delete") =>
                 IF Selected(c, req'[c].id) # {}
                 THEN /\ StatusOf(resp'[c]) = 204
                      /\ tasks' = tasks \ Selected(c, req'[c].id)
                 ELSE /\ StatusOf(resp'[c]) = 404
                      /\ tasks' = tasks
            /\ Finishes(c, "update") =>
                 IF Selected(c, req'[c].id) # {}
                 THEN /\ StatusOf(resp'[c]) = 200
                      /\ {t.id : t \in tasks'} = TaskIds
                 ELSE /\ StatusOf(resp'[c]) = 404
                      /\ tasks' = tasks]_vars
    /\ [][\A t \in tasks' : t.id \in TaskIds \/ t.id >= nextTaskId]_vars

\* The owner and an ADMIN deleted the same stored task at the same time: one
\* was answered 204, the other 404.
C23_Witness ==
    \E c, d \in Clients2 :
       /\ c # d
       /\ DeleteAnswered(c) /\ DeleteAnswered(d)
       /\ req[c].id = req[d].id
       /\ reqUser[c].role = "USER"
       /\ reqUser[d].role = "ADMIN"
       /\ StatusOf(resp[c]) = 204
       /\ StatusOf(resp[d]) = 404

====
